---------------------------- MODULE Spec2Model ----------------------------
(***************************************************************************)
(* Live-News-Trends: the background trend detector (core_algorithm.py) and *)
(* the reader of its published file (app.py).                              *)
(*                                                                         *)
(* Text is a sequence of one-character strings; a word is such a sequence  *)
(* too.  Floats are computed with the rounding of IEEE-754 doubles, so     *)
(* that count / total is the value Python computes.                        *)
(***************************************************************************)
EXTENDS Integers, Sequences, FiniteSets

(***************************************************************************)
(* Bounds of the exploration.                                              *)
(***************************************************************************)
\* The source sets WINDOW_SIZE = 20 (core_algorithm.py:43); the window is
\* explored at this smaller capacity so that overflow is reached.
WINDOW_SIZE == 2

\* random.random() returns k / 2^53; the model draws k / RandDen.
RandDen == 1000

\* Documents received in one run: enough to overflow the window.
MaxDocs == WINDOW_SIZE + 1

(***************************************************************************)
(* Program constants.                                                      *)
(***************************************************************************)
TOP_K == 10

\* int(2 / epsilon) with the default epsilon = 0.001
width == 2000

\* random.randint(1, 1_000_000)
MaxSeed == 1000000

\* significand bits of a Python float (IEEE-754 binary64)
MantissaBits == 53

(***************************************************************************)
(* Characters.                                                             *)
(***************************************************************************)
Lowercase ==
    <<"a","b","c","d","e","f","g","h","i","j","k","l","m",
      "n","o","p","q","r","s","t","u","v","w","x","y","z">>

Uppercase ==
    <<"A","B","C","D","E","F","G","H","I","J","K","L","M",
      "N","O","P","Q","R","S","T","U","V","W","X","Y","Z">>

Digits == <<"0","1","2","3","4","5","6","7","8","9">>

Range(s) == {s[i] : i \in DOMAIN s}

Min(S) == CHOOSE x \in S : \A y \in S : x <= y

Max(S) == CHOOSE x \in S : \A y \in S : y <= x

\* the indices 1..n in order
Indices(n) == [i \in 1..n |-> i]

\* str.lower() on one ASCII character
LowerOf == [c \in Range(Uppercase) |->
               Lowercase[CHOOSE i \in DOMAIN Uppercase : Uppercase[i] = c]]

lower(c) == IF c \in DOMAIN LowerOf THEN LowerOf[c] ELSE c

\* the class [a-z0-9] of the regular expression in clean_text
Alnum == Range(Lowercase) \cup Range(Digits)

IsAlnum(c) == c \in Alnum

\* str.strip(): drop leading and trailing blanks
strip(s) ==
    LET keep == SelectSeq(Indices(Len(s)), LAMBDA i : s[i] # " ")
    IN  IF keep = <<>> THEN <<>> ELSE SubSeq(s, keep[1], keep[Len(keep)])

\* text.lower(); re.sub(r"[^a-z0-9]+", " ", text); text.strip()
clean_text(text) ==
    LET low == [i \in DOMAIN text |-> lower(text[i])]
        sub == [i \in DOMAIN low |->
                   IF IsAlnum(low[i]) THEN low[i]
                   ELSE IF i = 1 \/ IsAlnum(low[i - 1]) THEN " " ELSE ""]
    IN  strip(SelectSeq(sub, LAMBDA c : c # ""))

\* str.split(): the maximal runs of non-blank characters, in order
split(s) ==
    LET n      == Len(s)
        starts == SelectSeq(Indices(n), LAMBDA i : s[i] # " " /\ (i = 1 \/ s[i - 1] = " "))
        stops  == SelectSeq(Indices(n), LAMBDA i : s[i] # " " /\ (i = n \/ s[i + 1] = " "))
    IN  [k \in DOMAIN starts |-> SubSeq(s, starts[k], stops[k])]

STOPWORDS == {
    <<"a">>, <<"i">>, <<"a","m">>, <<"a","n">>, <<"a","s">>, <<"a","t">>, <<"b","e">>,
    <<"b","y">>, <<"d","o">>, <<"h","e">>, <<"i","f">>, <<"i","n">>, <<"i","s">>,
    <<"i","t">>, <<"m","e">>, <<"m","y">>, <<"n","o">>, <<"o","f">>, <<"o","n">>,
    <<"o","r">>, <<"s","o">>, <<"t","o">>, <<"u","p">>, <<"w","e">>, <<"a","l","l">>,
    <<"a","n","d">>, <<"a","n","y">>, <<"a","r","e">>, <<"b","u","t">>, <<"c","a","n">>,
    <<"d","i","d">>, <<"f","e","w">>, <<"f","o","r">>, <<"h","a","d">>, <<"h","a","s">>,
    <<"h","e","r">>, <<"h","i","m">>, <<"h","i","s">>, <<"h","o","w">>, <<"i","'","d">>,
    <<"i","'","m">>, <<"i","t","s">>, <<"n","e","w">>, <<"n","o","r">>, <<"n","o","t">>,
    <<"o","f","f">>, <<"o","u","r">>, <<"o","u","t">>, <<"o","w","n">>, <<"s","a","y">>,
    <<"s","h","e">>, <<"t","h","e">>, <<"t","o","o">>, <<"v","i","a">>, <<"w","a","s">>,
    <<"w","h","o">>, <<"w","h","y">>, <<"y","o","u">>, <<"b","e","e","n">>,
    <<"b","o","t","h">>, <<"d","o","e","s">>, <<"d","o","w","n">>, <<"e","a","c","h">>,
    <<"f","r","o","m">>, <<"h","a","v","e">>, <<"h","e","'","d">>, <<"h","e","'","s">>,
    <<"h","e","r","e">>, <<"h","e","r","s">>, <<"i","'","l","l">>, <<"i","'","v","e">>,
    <<"i","n","t","o">>, <<"i","t","'","s">>, <<"l","i","v","e">>, <<"m","o","r","e">>,
    <<"m","o","s","t">>, <<"n","e","w","s">>, <<"o","n","c","e">>, <<"o","n","l","y">>,
    <<"o","u","r","s">>, <<"o","v","e","r">>, <<"s","a","i","d">>, <<"s","a","m","e">>,
    <<"s","a","y","s">>, <<"s","o","m","e">>, <<"s","u","c","h">>, <<"t","h","a","n">>,
    <<"t","h","a","t">>, <<"t","h","e","m">>, <<"t","h","e","n">>, <<"t","h","e","y">>,
    <<"t","h","i","s">>, <<"t","i","m","e">>, <<"v","e","r","y">>, <<"w","e","'","d">>,
    <<"w","e","e","k">>, <<"w","e","r","e">>, <<"w","h","a","t">>, <<"w","h","e","n">>,
    <<"w","h","o","m">>, <<"w","i","t","h">>, <<"y","e","a","r">>, <<"y","o","u","r">>,
    <<"a","b","o","u","t">>, <<"a","b","o","v","e">>, <<"a","f","t","e","r">>,
    <<"a","g","a","i","n">>, <<"b","e","i","n","g">>, <<"b","e","l","o","w">>,
    <<"c","a","n","'","t">>, <<"c","o","u","l","d">>, <<"d","o","i","n","g">>,
    <<"d","o","n","'","t">>, <<"h","e","'","l","l">>, <<"h","o","w","'","s">>,
    <<"i","s","n","'","t">>, <<"l","e","t","'","s">>, <<"m","e","d","i","a">>,
    <<"m","o","n","t","h">>, <<"o","t","h","e","r">>, <<"o","u","g","h","t">>,
    <<"p","r","e","s","s">>, <<"s","h","e","'","d">>, <<"s","h","e","'","s">>,
    <<"s","t","o","r","y">>, <<"t","h","e","i","r">>, <<"t","h","e","r","e">>,
    <<"t","h","e","s","e">>, <<"t","h","o","s","e">>, <<"t","o","d","a","y">>,
    <<"u","n","d","e","r">>, <<"u","n","t","i","l">>, <<"w","e","'","l","l">>,
    <<"w","e","'","r","e">>, <<"w","e","'","v","e">>, <<"w","h","e","r","e">>,
    <<"w","h","i","c","h">>, <<"w","h","i","l","e">>, <<"w","h","o","'","s">>,
    <<"w","h","y","'","s">>, <<"w","o","n","'","t">>, <<"w","o","u","l","d">>,
    <<"y","o","u","'","d">>, <<"y","o","u","r","s">>, <<"a","r","e","n","'","t">>,
    <<"b","e","f","o","r","e">>, <<"d","i","d","n","'","t">>, <<"d","u","r","i","n","g">>,
    <<"e","d","i","t","o","r">>, <<"h","a","d","n","'","t">>, <<"h","a","s","n","'","t">>,
    <<"h","a","v","i","n","g">>, <<"h","e","r","e","'","s">>, <<"i","t","s","e","l","f">>,
    <<"l","a","t","e","s","t">>, <<"m","y","s","e","l","f">>, <<"r","e","p","o","r","t">>,
    <<"s","h","e","'","l","l">>, <<"s","h","o","u","l","d">>, <<"s","o","u","r","c","e">>,
    <<"t","h","a","t","'","s">>, <<"t","h","e","i","r","s">>, <<"t","h","e","y","'","d">>,
    <<"u","p","d","a","t","e">>, <<"w","a","s","n","'","t">>, <<"w","h","a","t","'","s">>,
    <<"w","h","e","n","'","s">>, <<"y","o","u","'","l","l">>, <<"y","o","u","'","r","e">>,
    <<"y","o","u","'","v","e">>, <<"a","g","a","i","n","s","t">>,
    <<"b","e","c","a","u","s","e">>, <<"b","e","t","w","e","e","n">>,
    <<"d","o","e","s","n","'","t">>, <<"f","u","r","t","h","e","r">>,
    <<"h","a","v","e","n","'","t">>, <<"h","e","r","s","e","l","f">>,
    <<"h","i","m","s","e","l","f">>, <<"m","u","s","t","n","'","t">>,
    <<"r","e","p","o","r","t","s">>, <<"s","o","u","r","c","e","s">>,
    <<"t","h","e","r","e","'","s">>, <<"t","h","e","y","'","l","l">>,
    <<"t","h","e","y","'","r","e">>, <<"t","h","e","y","'","v","e">>,
    <<"t","h","r","o","u","g","h">>, <<"w","e","r","e","n","'","t">>,
    <<"w","h","e","r","e","'","s">>, <<"a","n","a","l","y","s","i","s">>,
    <<"b","r","e","a","k","i","n","g">>, <<"c","o","u","l","d","n","'","t">>,
    <<"r","e","p","o","r","t","e","d">>, <<"t","o","m","o","r","r","o","w">>,
    <<"w","o","u","l","d","n","'","t">>, <<"y","o","u","r","s","e","l","f">>,
    <<"a","c","c","o","r","d","i","n","g">>, <<"e","d","i","t","o","r","i","a","l">>,
    <<"e","x","c","l","u","s","i","v","e">>, <<"o","f","f","i","c","i","a","l","s">>,
    <<"o","u","r","s","e","l","v","e","s">>, <<"s","h","o","u","l","d","n","'","t">>,
    <<"s","t","a","t","e","m","e","n","t">>, <<"y","e","s","t","e","r","d","a","y">>,
    <<"t","h","e","m","s","e","l","v","e","s">>, <<"y","o","u","r","s","e","l","v","e","s">>,
    <<"a","u","t","h","o","r","i","t","i","e","s">>,
    <<"a","c","c","o","r","d","i","n","g"," ","t","o">>
}

\* Variant of the filter that forgets the stopword list.
LongerThanTwo(w) == Len(w) > 2

\* the test both tokenisers apply: w not in STOPWORDS and len(w) > 2
Counted(w) == w \notin STOPWORDS /\ Len(w) > 2

(***************************************************************************)
(* The documents the source may deliver (title and text of one item).      *)
(***************************************************************************)
DA ==
    [title |-> <<"F","e","d",":"," ","r","a","t","e","s"," ","&"," ","j","o","b","s">>,
     text  |-> <<"F","e","d","-","r","a","t","e","s","/","j","o","b","s"," ","a","s"," ",
                 "f","e","d"," ","r","a","t","e","s"," ","j","o","b","s"," ","G","2","0",
                 " ","i","s"," ","t","h","e"," ","g","2","0"," ","o","f"," ","o","i","l",
                 ";"," ","F","E","D"," ","R","A","T","E","S"," ","J","O","B","S",","," ",
                 "f","e","d"," ","r","a","t","e","s"," ","j","o","b","s"," ","-"," ","F",
                 "e","d"," ","r","a","t","e","s"," ","j","o","b","s"," ","g","2","0">>]

DC ==
    [title |-> <<"F","e","d"," ","a","n","d"," ","g","a","s">>,
     text  |-> <<"t","i","n",","," ","z","i","n","c",","," ","g","o","l","d",","," ","c",
                 "o","r","n",","," ","r","i","c","e",","," ","s","o","y",","," ","t","e",
                 "a",","," ","w","o","o","l"," ","u","p"," ","i","n"," ","A","s","i","a">>]

DS ==
    [title |-> <<"T","h","e"," ","U",".","S",".">>,
     text  |-> <<"i","s"," ","o","n"," ","i","t">>]

Documents == [A |-> DA, C |-> DC, S |-> DS]

DocNames == DOMAIN Documents

(***************************************************************************)
(* Python floats.  Every float the program computes is a quotient          *)
(* count / total with 1 <= count <= total < 2^7, or a sum of such          *)
(* quotients, so it is a multiple of 2^-FracBits below 2.  A float is      *)
(* written as that multiple, a natural number held in Limbs digits of      *)
(* base Base, least significant first.                                     *)
(***************************************************************************)
FracBits == MantissaBits + 7

LimbBits == 13

Base == 2 ^ LimbBits

Limbs == FracBits \div LimbBits + 1

\* x + y, exactly
RECURSIVE AddFrom(_, _, _, _)
AddFrom(x, y, i, carry) ==
    IF i > Len(x) THEN <<>>
    ELSE LET s == x[i] + y[i] + carry
         IN  <<s % Base>> \o AddFrom(x, y, i + 1, s \div Base)

ExactAdd(x, y) == AddFrom(x, y, 1, 0)

\* x * n for a small natural number n, one digit longer than x
RECURSIVE MulFrom(_, _, _, _)
MulFrom(x, n, i, carry) ==
    IF i > Len(x) THEN <<carry>>
    ELSE LET p == x[i] * n + carry
         IN  <<p % Base>> \o MulFrom(x, n, i + 1, p \div Base)

MulSmall(x, n) == MulFrom(x, n, 1, 0)

\* the number n, for n = 0 and n = 1
Fixed(n) ==
    [i \in 1..Limbs |->
        IF i = (FracBits \div LimbBits) + 1 THEN n * 2 ^ (FracBits % LimbBits) ELSE 0]

FloatZero == Fixed(0)

FloatOne == Fixed(1)

\* x <= y for numbers of the same number of digits
LeqDigits(x, y) ==
    \/ x = y
    \/ \E i \in DOMAIN x : x[i] < y[i] /\ \A j \in (i + 1)..Len(x) : x[j] = y[j]

\* the number of significant bits of x
BitLength(x) ==
    IF \A i \in DOMAIN x : x[i] = 0 THEN 0
    ELSE LET top == Max({i \in DOMAIN x : x[i] # 0})
         IN  LimbBits * (top - 1) + Min({n \in 1..LimbBits : x[top] < 2 ^ n})

\* the number of low bits of x that do not fit a significand
Excess(x) == IF BitLength(x) > MantissaBits THEN BitLength(x) - MantissaBits ELSE 0

\* x, or x and a fraction of one unit when sticky, rounded to MantissaBits
\* significant bits, to nearest and to even on a tie
RoundEven(x, sticky) ==
    LET s    == Excess(x)
        low  == x[1] % 2 ^ s
        odd  == (x[1] \div 2 ^ s) % 2 = 1
        half == 2 ^ (s - 1)
        down == [x EXCEPT ![1] = x[1] - low]
        up   == ExactAdd(down, [i \in DOMAIN x |-> IF i = 1 THEN 2 ^ s ELSE 0])
    IN  IF s = 0 THEN x
        ELSE IF low > half \/ (low = half /\ (sticky \/ odd)) THEN up
        ELSE down

\* floor(x / t) and the remainder, by long division from the most
\* significant digit
RECURSIVE DivFrom(_, _, _, _)
DivFrom(x, t, i, rem) ==
    IF i = 0 THEN [q |-> <<>>, r |-> rem]
    ELSE LET cur  == rem * Base + x[i]
             rest == DivFrom(x, t, i - 1, cur % t)
         IN  [q |-> Append(rest.q, cur \div t), r |-> rest.r]

\* count / total: the float nearest to the quotient
FloatDiv(c, t) ==
    LET d == DivFrom(MulSmall(FloatOne, c), t, Limbs + 1, 0)
    IN  RoundEven(SubSeq(d.q, 1, Limbs), d.r # 0)

\* x + y on floats
FloatAdd(x, y) == RoundEven(ExactAdd(x, y), FALSE)

\* sum() with float addition, left to right
RECURSIVE FloatSum(_)
FloatSum(s) ==
    IF s = <<>> THEN FloatZero
    ELSE FloatAdd(FloatSum(SubSeq(s, 1, Len(s) - 1)), s[Len(s)])

\* the sum of the values as rational numbers
RECURSIVE ExactSum(_)
ExactSum(s) ==
    IF s = <<>> THEN FloatZero
    ELSE ExactAdd(ExactSum(SubSeq(s, 1, Len(s) - 1)), s[Len(s)])

\* x is a float: it has no more than MantissaBits significant bits
IsFloat(x) == x[1] % 2 ^ Excess(x) = 0

\* x is within half a unit in its last place of c / t
NearestTo(x, c, t) ==
    LET half == [i \in DOMAIN x |-> IF i = 1 THEN 2 ^ (Excess(x) - 1) ELSE 0]
        num  == MulSmall(FloatOne, c)
    IN  /\ Excess(x) >= 1
        /\ LeqDigits(MulSmall(x, t), ExactAdd(num, MulSmall(half, t)))
        /\ LeqDigits(num, MulSmall(ExactAdd(x, half), t))

\* |x - 1| <= n * 2^-MantissaBits
NearOne(x, n) ==
    LET slack == [i \in DOMAIN x |-> IF i = 1 THEN n * 2 ^ (FracBits - MantissaBits) ELSE 0]
    IN  /\ LeqDigits(x, ExactAdd(FloatOne, slack))
        /\ LeqDigits(FloatOne, ExactAdd(x, slack))

(***************************************************************************)
(* CountMinSketch.  A sketch is a record: depth, table (one row per        *)
(* range(depth); a row holds its non-zero counters only, as a function     *)
(* from column to count) and hash_seeds, with three history fields that    *)
(* the program does not store: id (the number of the constructor call),    *)
(* draw (what random.random() returned, over RandDen) and updates (the     *)
(* items update() was called with).                                        *)
(***************************************************************************)
\* what random.random() may return, as numerators over RandDen: 0.0 and a
\* value in the middle of the range
RandDraws == {0, RandDen \div 2}

\* int(-1 * (random.random() * 100) or 10): the product is falsy only when
\* it is -0.0; int() truncates a negative float towards zero
Depth(draw) ==
    IF draw = 0 THEN 10 ELSE 0 - ((100 * draw) \div RandDen)

\* [random.randint(1, 1_000_000) for _ in range(depth)]: one list of
\* distinct seeds, the last of them the largest seed there is
SeedLists(depth) ==
    IF depth <= 0 THEN {<<>>}
    ELSE {[i \in 1..depth |-> MaxSeed - depth + i]}

\* ord() of the characters of a word
OrdOf ==
    [c \in Alnum |->
        IF \E i \in DOMAIN Digits : Digits[i] = c
        THEN 47 + (CHOOSE i \in DOMAIN Digits : Digits[i] = c)
        ELSE 96 + (CHOOSE i \in DOMAIN Lowercase : Lowercase[i] = c)]

Ord(c) == OrdOf[c]

\* str(seed).encode(): the bytes of the decimal digits
RECURSIVE Decimal(_)
Decimal(n) == IF n < 10 THEN <<48 + n>> ELSE Append(Decimal(n \div 10), 48 + (n % 10))

\* The digest of a byte string, reduced modulo width.  SHA-256 itself is
\* not computed: the digest is a fixed polynomial of the bytes, which like
\* the code's is a function of the item and the seed alone.
RECURSIVE Digest(_, _)
Digest(bytes, n) ==
    IF n = 0 THEN 7 ELSE (31 * Digest(bytes, n - 1) + bytes[n]) % width

_hash(item, seed) ==
    LET bytes == [i \in DOMAIN item |-> Ord(item[i])] \o Decimal(seed)
    IN  Digest(bytes, Len(bytes)) % width

EmptyRow == [j \in {} |-> 0]

\* table[i][index]
Cell(row, index) == IF index \in DOMAIN row THEN row[index] ELSE 0

CountMinSketch(id, draw, seeds) ==
    [id         |-> id,
     draw       |-> draw,
     depth      |-> Depth(draw),
     table      |-> [i \in 1..Depth(draw) |-> EmptyRow],
     hash_seeds |-> seeds,
     updates    |-> <<>>]

\* CountMinSketch.update
update(cms, item) ==
    [cms EXCEPT
       !.table = [i \in 1..cms.depth |->
                     LET index == _hash(item, cms.hash_seeds[i])
                         row   == cms.table[i]
                     IN  [j \in DOMAIN row \cup {index} |->
                            IF j = index THEN Cell(row, index) + 1 ELSE row[j]]],
       !.updates = Append(cms.updates, item)]

\* A return value or the exception raised instead.
Returns(v) == [raised |-> "", value |-> v]

Raises(e) == [raised |-> e, value |-> 0]

\* CountMinSketch.estimate: min() of an empty list raises ValueError
estimate(cms, item) ==
    IF cms.depth <= 0 THEN Raises("ValueError")
    ELSE Returns(Min({Cell(cms.table[i], _hash(item, cms.hash_seeds[i])) :
                         i \in 1..cms.depth}))

(***************************************************************************)
(* The state of the background process, and of the file it publishes.      *)
(***************************************************************************)
VARIABLES
    window,            \* deque of the last WINDOW_SIZE sketches
    all_words_buffer,  \* list of the last WINDOW_SIZE token lists
    current_trending,  \* dict word -> count, as its items in insertion order
    file,              \* content of trending_words.json, or NoFile
    running,           \* the loop of run_background_algorithm has not been stopped
    created,           \* history: number of sketches constructed
    received,          \* history: the documents received, by name, in order
    ret                \* history: the last operation and what it returned

vars == <<window, all_words_buffer, current_trending, file, running,
          created, received, ret>>

NoFile == "absent"

\* Variant of the initial cache that is not empty
PlaceholderTrending == << <<<<"n", "e", "w", "s">>, 1>> >>

\* current_trending = {}
InitialTrending == <<>>

\* for w in words: if w not in STOPWORDS and len(w) > 2: cms.update(w)
RECURSIVE UpdateAll(_, _, _)
UpdateAll(cms, words, n) ==
    IF n = 0 THEN cms
    ELSE LET before == UpdateAll(cms, words, n - 1)
         IN  IF Counted(words[n]) THEN update(before, words[n]) ELSE before

\* Variant of the eviction that removes the newest sketch: window.pop()
pop(win) == SubSeq(win, 1, Len(win) - 1)

\* window.popleft()
popleft(win) == Tail(win)

\* process_text: the window after the call
process_text(win, text, id, draw, seeds) ==
    LET words == split(clean_text(text))
        cms   == UpdateAll(CountMinSketch(id, draw, seeds), words, Len(words))
        added == Append(win, cms)
    IN  IF Len(added) > WINDOW_SIZE THEN popleft(added) ELSE added

\* the token lists of a buffer, one after the other
RECURSIVE Flatten(_)
Flatten(buf) == IF buf = <<>> THEN <<>> ELSE Flatten(SubSeq(buf, 1, Len(buf) - 1)) \o buf[Len(buf)]

\* freq_map: every word with the number of its occurrences, in the order
\* the words were first inserted
freq_map(buf) ==
    LET flat   == Flatten(buf)
        firsts == SelectSeq(Indices(Len(flat)),
                            LAMBDA i : \A j \in 1..(i - 1) : flat[j] # flat[i])
    IN  [k \in DOMAIN firsts |->
            <<flat[firsts[k]],
              Cardinality({j \in DOMAIN flat : flat[j] = flat[firsts[k]]})>>]

\* Variant of the initial map that holds every word of the buffer, at 0
known_words ==
    LET seen == freq_map(all_words_buffer)
    IN  [k \in DOMAIN seen |-> <<seen[k][1], 0>>]

\* defaultdict(int): the keys get_trending_words starts from
combined_counts == <<>>

\* for word in list(combined_counts.keys()): combined_counts[word] += cms.estimate(word)
\* for one sketch; an exception of estimate leaves the loop
MergeSketch(counts, cms) ==
    IF counts.raised # "" THEN counts
    ELSE LET est == [k \in DOMAIN counts.value |-> estimate(cms, counts.value[k][1])]
         IN  IF \E k \in DOMAIN est : est[k].raised # ""
             THEN Raises(est[Min({k \in DOMAIN est : est[k].raised # ""})].raised)
             ELSE Returns([k \in DOMAIN counts.value |->
                             <<counts.value[k][1], counts.value[k][2] + est[k].value>>])

RECURSIVE MergeWindow(_, _, _)
MergeWindow(counts, win, n) ==
    IF n = 0 THEN counts ELSE MergeSketch(MergeWindow(counts, win, n - 1), win[n])

\* Variant of the sort that is not stable: items of equal count come out in
\* the reverse of their order
sorted_reversing_ties(items) ==
    LET n    == Len(items)
        rank == [i \in 1..n |->
                   Cardinality({j \in 1..n : items[j][2] > items[i][2]})
                   + Cardinality({j \in (i + 1)..n : items[j][2] = items[i][2]}) + 1]
    IN  [k \in 1..n |-> items[CHOOSE i \in 1..n : rank[i] = k]]

\* sorted(items, key=lambda x: x[1], reverse=True): a stable sort, so items
\* of equal count keep their order
sorted_desc(items) ==
    LET n    == Len(items)
        rank == [i \in 1..n |->
                   Cardinality({j \in 1..n : items[j][2] > items[i][2]})
                   + Cardinality({j \in 1..(i - 1) : items[j][2] = items[i][2]}) + 1]
    IN  [k \in 1..n |-> items[CHOOSE i \in 1..n : rank[i] = k]]

\* seq[:TOP_K]
top_k(items) == SubSeq(items, 1, IF Len(items) < TOP_K THEN Len(items) ELSE TOP_K)

get_trending_words ==
    LET merged == MergeWindow(Returns(combined_counts), window, Len(window))
    IN  IF merged.raised # "" THEN merged
        ELSE Returns(top_k(sorted_desc(merged.value)))

RECURSIVE SumCounts(_)
SumCounts(items) ==
    IF items = <<>> THEN 0
    ELSE SumCounts(SubSeq(items, 1, Len(items) - 1)) + items[Len(items)][2]

\* Variant of the normalisation that divides by the largest count
NormalisedByLargest(d) ==
    IF d = <<>> THEN <<>>
    ELSE LET largest == Max({d[k][2] : k \in DOMAIN d})
         IN  [k \in DOMAIN d |-> <<d[k][1], FloatDiv(d[k][2], largest)>>]

\* {word: count / total for word, count in d.items()} if total > 0 else {}
Probabilities(d) ==
    LET total == SumCounts(d)
    IN  IF total > 0
        THEN [k \in DOMAIN d |-> <<d[k][1], FloatDiv(d[k][2], total)>>]
        ELSE <<>>

get_top_k_words ==
    IF current_trending = <<>> THEN <<>> ELSE Probabilities(current_trending)

\* calculate_word_probabilities; torn: the file is read while the writer
\* has it truncated, json.load raises and the except branch returns {}
calculate_word_probabilities(torn) ==
    IF file = NoFile \/ torn THEN <<>>
    ELSE IF file # <<>> THEN Probabilities(file)
    ELSE <<>>

\* fetch_live_news: "" on an exception or a status other than 200
FetchOutcomes == {"ok", "exception", "status"}

fetch_live_news(outcome, d) ==
    IF outcome = "ok" THEN Documents[d].title \o <<" ">> \o Documents[d].text
    ELSE <<>>

\* Variant of the test that lets an empty fetch result through
AnyContent(content) == TRUE

\* if content:
HasContent(content) == content # <<>>

\* Variant of the eviction that removes the newest token list:
\* all_words_buffer.pop()
pop_last(buf) == SubSeq(buf, 1, Len(buf) - 1)

\* all_words_buffer.pop(0)
pop0(buf) == Tail(buf)

\* [w for w in cleaned.split() if w not in STOPWORDS and len(w) > 2]
Words(content) == SelectSeq(split(clean_text(content)), Counted)

Init ==
    /\ window = <<>>
    /\ all_words_buffer = <<>>
    /\ current_trending = InitialTrending
    /\ file = NoFile
    /\ running = TRUE
    /\ created = 0
    /\ received = <<>>
    /\ ret = [op |-> "none", fetch |-> "none", raised |-> "", value |-> <<>>]

\* One pass of the loop of run_background_algorithm.  Passes that receive a
\* document are counted up to MaxDocs.  save_trending_to_file is taken to
\* succeed: an error of the write is caught there and changes nothing else.
Tick ==
    /\ running
    /\ \E outcome \in FetchOutcomes, d \in DocNames :
         LET content == fetch_live_news(outcome, d)
         IN  IF HasContent(content)
             THEN /\ Len(received) < MaxDocs
                  /\ LET added    == Append(all_words_buffer, Words(content))
                         buf      == IF Len(added) > WINDOW_SIZE THEN pop0(added) ELSE added
                         trending == top_k(sorted_desc(freq_map(buf)))
                     IN  /\ all_words_buffer' = buf
                         /\ \E draw \in RandDraws : \E seeds \in SeedLists(Depth(draw)) :
                              window' = process_text(window, content, created + 1, draw, seeds)
                         /\ current_trending' = trending
                         /\ file' = trending
                  /\ created' = created + 1
                  /\ received' = Append(received, d)
                  /\ ret' = [op |-> "tick", fetch |-> outcome, raised |-> "", value |-> <<>>]
                  /\ UNCHANGED running
             ELSE /\ ret' = [op |-> "tick", fetch |-> outcome, raised |-> "", value |-> <<>>]
                  /\ UNCHANGED <<window, all_words_buffer, current_trending, file,
                                 running, created, received>>

\* KeyboardInterrupt ends the loop
Interrupt ==
    /\ running
    /\ running' = FALSE
    /\ ret' = [op |-> "interrupt", fetch |-> "none", raised |-> "", value |-> <<>>]
    /\ UNCHANGED <<window, all_words_buffer, current_trending, file, created, received>>

CallGetTrendingWords ==
    /\ ret' = [op |-> "get_trending_words", fetch |-> "none",
               raised |-> get_trending_words.raised,
               value |-> IF get_trending_words.raised = "" THEN get_trending_words.value ELSE <<>>]
    /\ UNCHANGED <<window, all_words_buffer, current_trending, file, running, created, received>>

CallGetTopKWords ==
    /\ ret' = [op |-> "get_top_k_words", fetch |-> "none", raised |-> "",
               value |-> get_top_k_words]
    /\ UNCHANGED <<window, all_words_buffer, current_trending, file, running, created, received>>

CallCalculateWordProbabilities ==
    /\ \E torn \in BOOLEAN :
         /\ torn => file # NoFile
         /\ ret' = [op |-> "calculate_word_probabilities", fetch |-> "none", raised |-> "",
                    value |-> calculate_word_probabilities(torn)]
    /\ UNCHANGED <<window, all_words_buffer, current_trending, file, running, created, received>>

Next ==
    \/ Tick
    \/ Interrupt
    \/ CallGetTrendingWords
    \/ CallGetTopKWords
    \/ CallCalculateWordProbabilities

Spec == Init /\ [][Next]_vars


(***************************************************************************)
(* Vocabulary of the properties.                                           *)
(***************************************************************************)
Smaller(a, b) == IF a < b THEN a ELSE b

\* the number of occurrences of w in a token list
Count(words, w) == Cardinality({i \in DOMAIN words : words[i] = w})

\* the position at which w is first seen in a token list
FirstSeen(words, w) == Min({i \in DOMAIN words : words[i] = w})

\* the counted tokens of document d
WordsOf(d) == Words(fetch_live_news("ok", d))

\* every token of document d is a stopword or has length <= 2
NothingCounted(d) ==
    \A t \in Range(split(clean_text(fetch_live_news("ok", d)))) :
        t \in STOPWORDS \/ Len(t) <= 2

\* the counted tokens of the last n documents received, oldest first
RecentWords(n) == Flatten([i \in 1..n |-> WordsOf(received[Len(received) - n + i])])

\* every word some document counts
Vocabulary == UNION {Range(WordsOf(d)) : d \in DocNames}

\* the words and the values of a mapping
Keys(d) == {d[k][1] : k \in DOMAIN d}

Values(d) == [k \in DOMAIN d |-> d[k][2]]

\* the step is a pass of the loop that received document d
Received(d) ==
    /\ ret'.op = "tick"
    /\ ret'.fetch = "ok"
    /\ received' = Append(received, d)

\* the step is a pass of the loop in which the fetch failed
FetchFailed ==
    /\ ret'.op = "tick"
    /\ ret'.fetch \in {"exception", "status"}

(***************************************************************************)
(* C1                                                                      *)
(***************************************************************************)
\* C1: after n calls of process_text the window holds exactly
\* min(n, WINDOW_SIZE) sketches, they are the most recently created ones
\* (sketch number n - length + i at position i, built from the document of
\* that number) with the oldest at the head, so the length never exceeds
\* WINDOW_SIZE and what overflow removed is the oldest.
C1_WindowHoldsMostRecent ==
    /\ Len(window) = Smaller(created, WINDOW_SIZE)
    /\ \A i \in DOMAIN window :
         /\ window[i].id = created - Len(window) + i
         /\ window[i].updates = WordsOf(received[window[i].id])

\* the window has overflowed: sketch 1 is gone and the head is the oldest kept
C1_Overflowed ==
    /\ created > WINDOW_SIZE
    /\ Len(window) = WINDOW_SIZE
    /\ window[1].id = created - WINDOW_SIZE + 1

(***************************************************************************)
(* C2                                                                      *)
(***************************************************************************)
\* C2: for every sketch the constructor built and the updates applied to it,
\* estimate(w) returns a number, and the number is at least the number of
\* update(w) calls, for every word w.
C2_EstimateNeverUnderestimates ==
    \A i \in DOMAIN window : \A w \in Vocabulary :
        LET e == estimate(window[i], w)
        IN  e.raised = "" /\ e.value >= Count(window[i].updates, w)

(***************************************************************************)
(* C3                                                                      *)
(***************************************************************************)
\* C3: after a received document is processed, current_trending is computed
\* from the token lists of exactly the last min(n, WINDOW_SIZE) documents
\* received: every entry is a word of those documents with the number of
\* its occurrences in them, and there are min(TOP_K, distinct words) entries;
\* an evicted document contributes nothing.
C3_TrendingFromRecentDocuments ==
    LET recent == RecentWords(Smaller(Len(received), WINDOW_SIZE))
    IN  /\ Len(current_trending) = Smaller(TOP_K, Cardinality(Range(recent)))
        /\ Cardinality(Keys(current_trending)) = Len(current_trending)
        /\ \A k \in DOMAIN current_trending :
             /\ current_trending[k][1] \in Range(recent)
             /\ current_trending[k][2] = Count(recent, current_trending[k][1])

\* a document has been evicted, and a word only it contained is absent
\* from a non-empty current_trending
C3_EvictedWordGone ==
    /\ Len(received) > WINDOW_SIZE
    /\ current_trending # <<>>
    /\ \E w \in Range(WordsOf(received[1])) :
         /\ w \notin Keys(current_trending)
         /\ w \notin Range(RecentWords(WINDOW_SIZE))

(***************************************************************************)
(* C4                                                                      *)
(***************************************************************************)
\* a ranks before b: a higher count, or the same count and seen first
Outranks(words, a, b) ==
    \/ Count(words, a) > Count(words, b)
    \/ /\ Count(words, a) = Count(words, b)
       /\ FirstSeen(words, a) < FirstSeen(words, b)

\* C4: the trending list holds the min(TOP_K, distinct words) words of the
\* highest count over the window, in descending order of count; of two
\* words of equal count the one seen first (earlier document of the window,
\* then earlier position) comes first, and is the one kept at the cut-off.
C4_TopKOrder ==
    LET words == Flatten(all_words_buffer)
    IN  /\ Len(current_trending) = Smaller(TOP_K, Cardinality(Range(words)))
        /\ \A k \in DOMAIN current_trending :
             /\ current_trending[k][1] \in Range(words)
             /\ current_trending[k][2] = Count(words, current_trending[k][1])
        /\ \A j, k \in DOMAIN current_trending :
             j < k => Outranks(words, current_trending[j][1], current_trending[k][1])
        /\ \A w \in Range(words) \ Keys(current_trending) :
             \A k \in DOMAIN current_trending :
                 Outranks(words, current_trending[k][1], w)

\* more than TOP_K distinct words in a window of two documents, the last
\* word listed tied with a word left out and with a word of the other
\* document
C4_TieAtCutOff ==
    LET words == Flatten(all_words_buffer)
        last  == current_trending[TOP_K]
    IN  /\ Len(all_words_buffer) > 1
        /\ Cardinality(Range(words)) > TOP_K
        /\ \E w \in Range(words) \ Keys(current_trending) : Count(words, w) = last[2]
        /\ \E w \in Range(all_words_buffer[1]) \ Range(all_words_buffer[2]) :
             \E v \in Range(all_words_buffer[2]) \ Range(all_words_buffer[1]) :
                 Count(words, w) = Count(words, v)

(***************************************************************************)
(* C5                                                                      *)
(***************************************************************************)
\* the values add up to 1: as rational numbers, or when added as floats
\* from left to right, or when their exact sum is rounded to a float
SumsToOne(p) ==
    \/ ExactSum(Values(p)) = FloatOne
    \/ FloatSum(Values(p)) = FloatOne
    \/ RoundEven(ExactSum(Values(p)), FALSE) = FloatOne

\* p maps the words of d, in order, to the floats nearest count / total
QuotientsOf(p, d) ==
    /\ Len(p) = Len(d)
    /\ \A k \in DOMAIN p :
         /\ p[k][1] = d[k][1]
         /\ IsFloat(p[k][2])
         /\ NearestTo(p[k][2], d[k][2], SumCounts(d))

\* C5 as stated: a non-empty result of get_top_k_words or of
\* calculate_word_probabilities has values count / total that sum to
\* exactly 1, and the result is empty when current_trending is empty.
C5_SumsToExactlyOne ==
    /\ ret.op = "get_top_k_words" =>
         IF current_trending = <<>> THEN ret.value = <<>>
         ELSE QuotientsOf(ret.value, current_trending) /\ SumsToOne(ret.value)
    /\ (ret.op = "calculate_word_probabilities" /\ ret.value # <<>>) =>
         QuotientsOf(ret.value, file) /\ SumsToOne(ret.value)

\* C5 amended: a non-empty result has as values the floats nearest
\* count / total, total the sum of the counts of the returned words, and
\* their sum is within n * 2^-53 of 1 for n values; the result is empty
\* when current_trending is empty (for the reader: when the file is absent,
\* empty or unreadable).
C5_SumsToOneWithinRounding ==
    /\ ret.op = "get_top_k_words" =>
         IF current_trending = <<>> THEN ret.value = <<>>
         ELSE /\ QuotientsOf(ret.value, current_trending)
              /\ NearOne(ExactSum(Values(ret.value)), Len(ret.value))
    /\ ret.op = "calculate_word_probabilities" =>
         IF file = NoFile \/ file = <<>> THEN ret.value = <<>>
         ELSE \/ ret.value = <<>>
              \/ /\ QuotientsOf(ret.value, file)
                 /\ NearOne(ExactSum(Values(ret.value)), Len(ret.value))

\* one of the two functions has returned several probabilities
C5_SeveralProbabilities ==
    /\ ret.op \in {"get_top_k_words", "calculate_word_probabilities"}
    /\ Len(ret.value) > 1
    /\ Len(ret.value) = Len(current_trending)

(***************************************************************************)
(* C6                                                                      *)
(***************************************************************************)
\* C6: a pass of the loop in which fetch_live_news returned "" (exception
\* or status other than 200) leaves window, all_words_buffer,
\* current_trending and the file as they were, and the loop goes on.
C6_FailedFetchChangesNothing ==
    [][FetchFailed =>
         /\ UNCHANGED <<window, all_words_buffer, current_trending, file>>
         /\ running'
      ]_vars

\* a fetch has failed after documents were processed, and the loop runs
C6_FailedAfterData ==
    /\ ret.op = "tick"
    /\ ret.fetch \in {"exception", "status"}
    /\ window # <<>>
    /\ current_trending # <<>>
    /\ running

(***************************************************************************)
(* C7                                                                      *)
(***************************************************************************)
\* C7: while the window is empty, get_trending_words returns the empty list
\* and get_top_k_words the empty mapping, and neither raises.
C7_EmptyWindowEmptyResult ==
    window = <<>> =>
        /\ get_trending_words = Returns(<<>>)
        /\ get_top_k_words = <<>>
        /\ ret.op \in {"get_trending_words", "get_top_k_words"} =>
             ret.raised = "" /\ ret.value = <<>>

\* get_top_k_words has been called on the empty window
C7_CalledOnEmptyWindow ==
    /\ window = <<>>
    /\ ret.op = "get_top_k_words"

(***************************************************************************)
(* C8                                                                      *)
(***************************************************************************)
\* the step pushed an empty snapshot: an empty word list and a sketch with
\* no update
EmptySnapshotPushed ==
    /\ all_words_buffer' # <<>>
    /\ all_words_buffer'[Len(all_words_buffer')] = <<>>
    /\ window' # <<>>
    /\ window'[Len(window')].id = created'
    /\ window'[Len(window')].updates = <<>>
    /\ \A i \in DOMAIN window'[Len(window')].table :
         window'[Len(window')].table[i] = EmptyRow

\* C8 as stated: processing a document whose every token is a stopword or
\* of length <= 2 pushes an empty snapshot, and the window length increases
\* by one.
C8_WindowAlwaysGrows ==
    [][\A d \in DocNames :
         (Received(d) /\ NothingCounted(d)) =>
             /\ EmptySnapshotPushed
             /\ Len(window') = Len(window) + 1
      ]_vars

\* C8 amended: processing such a document pushes an empty snapshot; the
\* window length increases by one while it is below WINDOW_SIZE, and at
\* WINDOW_SIZE the oldest sketch is evicted and the length stays.
C8_WindowGrowsUntilFull ==
    [][\A d \in DocNames :
         (Received(d) /\ NothingCounted(d)) =>
             /\ EmptySnapshotPushed
             /\ Len(window') = Smaller(Len(window) + 1, WINDOW_SIZE)
             /\ Len(all_words_buffer') = Smaller(Len(all_words_buffer) + 1, WINDOW_SIZE)
             /\ Len(window) = WINDOW_SIZE => window'[1] = window[2]
      ]_vars

\* a document with no counted token has been processed on a full window
C8_EmptySnapshotOnFullWindow ==
    /\ ret.op = "tick"
    /\ ret.fetch = "ok"
    /\ created > WINDOW_SIZE
    /\ NothingCounted(received[Len(received)])
    /\ window[Len(window)].updates = <<>>

(***************************************************************************)
(* C9                                                                      *)
(***************************************************************************)
\* C9: whatever random.random() returned, the constructor set depth to 10,
\* so every sketch has exactly 10 rows and 10 hash seeds.
C9_DepthIsTen ==
    \A i \in DOMAIN window :
        /\ window[i].depth = 10
        /\ Len(window[i].table) = 10
        /\ Len(window[i].hash_seeds) = 10

(***************************************************************************)
(* C10                                                                     *)
(***************************************************************************)
\* C10: get_trending_words introduces no key: the words of its result are
\* keys its combined-count map started with, and the map starts empty, so
\* the result is empty and no word that was counted in a sketch of the
\* window and is not such a key is in the result.
C10_NoWordSurfaces ==
    /\ get_trending_words.raised = ""
    /\ Keys(get_trending_words.value) \subseteq Keys(combined_counts)
    /\ get_trending_words.value = <<>>
    /\ \A i \in DOMAIN window : \A w \in Range(window[i].updates) :
         w \notin Keys(combined_counts) => w \notin Keys(get_trending_words.value)
    /\ ret.op = "get_trending_words" =>
         ret.raised = "" /\ Keys(ret.value) \subseteq Keys(combined_counts)

\* get_trending_words has been called on a window with a sketch whose
\* counters are not all zero
C10_CalledOnCountedWords ==
    /\ ret.op = "get_trending_words"
    /\ \E i \in DOMAIN window :
         /\ window[i].updates # <<>>
         /\ \E r \in DOMAIN window[i].table : window[i].table[r] # EmptyRow
============================================================================
